---------------------------- MODULE Spec2Model ----------------------------
(***************************************************************************)
(* Structured-response recovery of the CSRD IRO analyser (src/app.py):     *)
(* GPTInterface.clean_json_string (the repair pass) and                    *)
(* GPTInterface.generate_iros (generate, decode, repair, validate, retry). *)
(*                                                                         *)
(* A text is a sequence of characters; a character is a one-character      *)
(* string.  Positions inside operators are 1-based (TLA+ sequences); the   *)
(* offsets the decoder reports are Python's 0-based offsets.               *)
(***************************************************************************)
EXTENDS Integers, Sequences, FiniteSets, TLC

(***************************************************************************)
(* Bounds of the model.                                                    *)
(***************************************************************************)
\* longest input text of the repair pass that is enumerated exhaustively
MaxLen == 5

\* characters of the exhaustively enumerated input texts
Alphabet == {"{", "}", "\"", "\\", "[", "\t", "\n"}

(***************************************************************************)
(* Text helpers (Python str operations used by the source).                *)
(***************************************************************************)
\* the least element of a non-empty set of integers
SetMin(S) == CHOOSE m \in S : \A n \in S : m <= n

\* the greatest element of a non-empty set of integers
SetMax(S) == CHOOSE m \in S : \A n \in S : n <= m

\* str.count(c) for a one-character c
Count(s, c) == Cardinality({i \in 1..Len(s) : s[i] = c})

\* str.find(c, start): the first 1-based index >= i holding c, 0 when none
\* (Python returns the 0-based index, -1 when none)
FindFrom(s, c, i) ==
    LET hits == {k \in i..Len(s) : s[k] = c}
    IN  IF hits = {} THEN 0 ELSE SetMin(hits)

\* c * n
Repeat(c, n) == [k \in 1..n |-> c]

\* s[:pos] + c + s[pos:] for a 0-based pos
InsertAt(s, pos, c) ==
    LET p == IF pos > Len(s) THEN Len(s) ELSE pos
    IN  SubSeq(s, 1, p) \o <<c>> \o SubSeq(s, p + 1, Len(s))

RECURSIVE Digits(_)
\* str(n) for a natural number n
Digits(n) ==
    LET d == <<"0", "1", "2", "3", "4", "5", "6", "7", "8", "9">>
    IN  IF n < 10 THEN <<d[n + 1]>> ELSE Digits(n \div 10) \o <<d[(n % 10) + 1]>>

DigitChars == {"0", "1", "2", "3", "4", "5", "6", "7", "8", "9"}


(***************************************************************************)
(* json.loads: the strict decoder the source calls (Python's json module). *)
(* A decoded value is a record [t, v]: t is "str" (v the characters),      *)
(* "num" (v the lexeme), "lit" (v the literal's name), "arr" (v the        *)
(* items) or "obj" (v the <<key, value>> pairs in insertion order, a       *)
(* repeated key keeping its last value).  A result is                      *)
(* [ok, val, end, msg, pos]: end the 1-based index after the value, msg    *)
(* and pos the JSONDecodeError's message and 0-based offset.               *)
(***************************************************************************)
NoValue == [t |-> "none", v |-> <<>>]

DecodeOk(v, e) == [ok |-> TRUE, val |-> v, end |-> e, msg |-> "", pos |-> 0]

DecodeError(m, p) == [ok |-> FALSE, val |-> NoValue, end |-> 0, msg |-> m, pos |-> p]

Whitespace == {" ", "\t", "\n", "\r"}

ControlChars == {"\t", "\n", "\r", "\f", "BS"}

HexChars == DigitChars \cup {"a", "b", "c", "d", "e", "f", "A", "B", "C", "D", "E", "F"}

\* the character at 1-based index i, "" past the end (s[end:end + 1])
CharAt(s, i) == IF i >= 1 /\ i <= Len(s) THEN s[i] ELSE ""

\* the first index >= i whose character is not in S (Len(s) + 1 at the end)
SkipChars(s, i, S) ==
    CHOOSE j \in i..(Len(s) + 1) :
        CharAt(s, j) \notin S /\ \A k \in i..(j - 1) : s[k] \in S

\* WHITESPACE.match(s, i).end()
SkipWs(s, i) == IF i > Len(s) THEN i ELSE SkipChars(s, i, Whitespace)

SkipDigits(s, i) == IF i > Len(s) THEN i ELSE SkipChars(s, i, DigitChars)

\* the character a backslash escape stands for (BACKSLASH table), "" when invalid
Unescape(esc) ==
    CASE esc = "\"" -> "\""
      [] esc = "\\" -> "\\"
      [] esc = "/" -> "/"
      [] esc = "b" -> "BS"
      [] esc = "f" -> "\f"
      [] esc = "n" -> "\n"
      [] esc = "r" -> "\r"
      [] esc = "t" -> "\t"
      [] OTHER -> ""

\* the number of backslashes standing directly before index k, from index i on
BackslashRun(s, i, k) ==
    CHOOSE d \in 0..(k - i) :
        /\ \A m \in 1..d : s[k - m] = "\\"
        /\ (d = k - i \/ s[k - d - 1] # "\\")

\* whether the character at k of the string that starts at i is the second
\* character of a backslash escape
Escaped(s, i, k) == BackslashRun(s, i, k) % 2 = 1

\* what scanstring does at the character k: "none" (go on), "quote" (the
\* string ends), "control", "bad_escape" or "bad_u" (it raises)
StopKind(s, k, escaped) ==
    IF escaped
    THEN IF s[k] = "u"
         THEN IF k + 4 <= Len(s) /\ \A m \in 1..4 : s[k + m] \in HexChars
              THEN "none"
              ELSE "bad_u"
         ELSE IF Unescape(s[k]) = "" THEN "bad_escape" ELSE "none"
    ELSE IF s[k] = "\"" THEN "quote"
    ELSE IF s[k] \in ControlChars THEN "control"
    ELSE "none"

\* the least element of S, 0 when S is empty
MinOrZero(S) == IF S = {} THEN 0 ELSE SetMin(S)

\* the index where the string that starts at i stops, 0 when it never does
FirstStop(s, i) ==
    MinOrZero({k \in i..Len(s) : StopKind(s, k, Escaped(s, i, k)) # "none"})

\* one character of the decoded string; a \uXXXX escape is kept as the
\* token "\\u" followed by its four hex digits
DecodeChar(c, escaped) ==
    IF ~escaped THEN c ELSE IF c = "u" THEN "\\u" ELSE Unescape(c)

DecodeKept(s, i, kept) ==
    [m \in 1..Len(kept) |-> DecodeChar(s[kept[m]], Escaped(s, i, kept[m]))]

\* the characters of the string between i and its closing quote at k
StringContent(s, i, k) ==
    LET Kept(m) == Escaped(s, i, m) \/ s[m] # "\\"
    IN  DecodeKept(s, i, SelectSeq([m \in 1..(k - i) |-> i + m - 1], Kept))

StringEnd(s, i, k, kind) ==
    CASE kind = "bad_u" -> DecodeError("Invalid \\uXXXX escape", k - 1)
      [] kind = "bad_escape" -> DecodeError("Invalid \\escape", k - 2)
      [] kind = "control" -> DecodeError("Invalid control character at", k - 1)
      [] OTHER -> DecodeOk(StringContent(s, i, k), k + 1)

StringAt(s, i, begin, k) ==
    IF k = 0 THEN DecodeError("Unterminated string starting at", begin)
    ELSE StringEnd(s, i, k, StopKind(s, k, Escaped(s, i, k)))

\* scanstring(s, end, strict = True): i is the index after the opening
\* quote, begin the 0-based offset of the opening quote.  The string stops
\* at the first unescaped quote, control character or bad escape, or the
\* text ends before it does.
scanstring(s, i, begin) == StringAt(s, i, begin, FirstStop(s, i))

DigitsEnd(s, j) ==
    IF CharAt(s, j) = "0" THEN j + 1
    ELSE IF CharAt(s, j) \in DigitChars THEN SkipDigits(s, j)
    ELSE 0

FractionEnd(s, e) ==
    IF e # 0 /\ CharAt(s, e) = "." /\ CharAt(s, e + 1) \in DigitChars
    THEN SkipDigits(s, e + 1)
    ELSE e

ExponentDigits(s, e, k) ==
    IF e # 0 /\ CharAt(s, e) \in {"e", "E"} /\ CharAt(s, k) \in DigitChars
    THEN SkipDigits(s, k)
    ELSE e

ExponentEnd(s, e) ==
    ExponentDigits(s, e, IF CharAt(s, e + 1) \in {"+", "-"} THEN e + 2 ELSE e + 1)

\* NUMBER_RE.match(s, i): -?(0|[1-9]\d*)(\.\d+)?([eE][-+]?\d+)? ; the index
\* after the match, 0 when there is none
MatchNumber(s, i) ==
    ExponentEnd(s, FractionEnd(s, DigitsEnd(s, IF CharAt(s, i) = "-" THEN i + 1 ELSE i)))

\* whether the literal w stands at index i of s
StartsWith(s, i, w) == i + Len(w) - 1 <= Len(s) /\ SubSeq(s, i, i + Len(w) - 1) = w

Literals == << <<"n", "u", "l", "l">>, <<"t", "r", "u", "e">>, <<"f", "a", "l", "s", "e">>,
               <<"N", "a", "N">>, <<"I", "n", "f", "i", "n", "i", "t", "y">>,
               <<"-", "I", "n", "f", "i", "n", "i", "t", "y">> >>

\* the literal that stands at index i, 0 when none does
LiteralAt(s, i) == MinOrZero({n \in 1..Len(Literals) : StartsWith(s, i, Literals[n])})

\* dict[k] = v on the list of pairs
PutPair(pairs, k, v) ==
    IF \E n \in 1..Len(pairs) : pairs[n][1] = k
    THEN [n \in 1..Len(pairs) |-> IF pairs[n][1] = k THEN <<k, v>> ELSE pairs[n]]
    ELSE Append(pairs, <<k, v>>)

StringValue(r) == IF r.ok THEN DecodeOk([t |-> "str", v |-> r.val], r.end) ELSE r

\* a number, or the StopIteration that becomes "Expecting value"
NumberValue(s, i, e) ==
    IF e # 0 THEN DecodeOk([t |-> "num", v |-> SubSeq(s, i, e - 1)], e)
    ELSE DecodeError("Expecting value", i - 1)

LiteralValue(s, i, n) ==
    IF n # 0 THEN DecodeOk([t |-> "lit", v |-> Literals[n]], i + Len(Literals[n]))
    ELSE NumberValue(s, i, MatchNumber(s, i))

RECURSIVE scan_once(_, _)
RECURSIVE JSONObject(_, _, _)
RECURSIVE JSONArray(_, _, _)

\* JSONObject after a member: next is the index of the first character
\* after the value and whitespace
ObjectNext(s, pairs, next) ==
    LET name == SkipWs(s, next + 1)
    IN  IF CharAt(s, next) = "}" THEN DecodeOk([t |-> "obj", v |-> pairs], next + 1)
        ELSE IF CharAt(s, next) # "," THEN DecodeError("Expecting ',' delimiter", next - 1)
        ELSE IF CharAt(s, name) # "\""
        THEN DecodeError("Expecting property name enclosed in double quotes", name - 1)
        ELSE JSONObject(s, name, pairs)

ObjectValue(s, pairs, key, val) ==
    IF ~val.ok THEN val ELSE ObjectNext(s, PutPair(pairs, key, val.val), SkipWs(s, val.end))

ObjectColon(s, pairs, key, colon) ==
    IF CharAt(s, colon) # ":" THEN DecodeError("Expecting ':' delimiter", colon - 1)
    ELSE ObjectValue(s, pairs, key, scan_once(s, SkipWs(s, colon + 1)))

ObjectKey(s, pairs, key) ==
    IF ~key.ok THEN key ELSE ObjectColon(s, pairs, key.val, SkipWs(s, key.end))

\* JSONObject's loop: i is the index of the opening quote of the next key
JSONObject(s, i, pairs) == ObjectKey(s, pairs, scanstring(s, i + 1, i - 1))

\* JSONObject before its first key: j is the index of the first character
\* after the brace and whitespace
ObjectStart(s, j) ==
    IF CharAt(s, j) = "}" THEN DecodeOk([t |-> "obj", v |-> <<>>], j + 1)
    ELSE IF CharAt(s, j) # "\""
    THEN DecodeError("Expecting property name enclosed in double quotes", j - 1)
    ELSE JSONObject(s, j, <<>>)

ArrayNext(s, values, next) ==
    IF CharAt(s, next) = "]" THEN DecodeOk([t |-> "arr", v |-> values], next + 1)
    ELSE IF CharAt(s, next) # "," THEN DecodeError("Expecting ',' delimiter", next - 1)
    ELSE JSONArray(s, SkipWs(s, next + 1), values)

ArrayValue(s, values, val) ==
    IF ~val.ok THEN val ELSE ArrayNext(s, Append(values, val.val), SkipWs(s, val.end))

\* JSONArray's loop: i is the index where the next item starts
JSONArray(s, i, values) == ArrayValue(s, values, scan_once(s, i))

ArrayStart(s, j) ==
    IF CharAt(s, j) = "]" THEN DecodeOk([t |-> "arr", v |-> <<>>], j + 1)
    ELSE JSONArray(s, j, <<>>)

\* scan_once(s, idx): a StopIteration(idx) is the "Expecting value" error
\* its callers turn it into
scan_once(s, i) ==
    CASE CharAt(s, i) = "\"" -> StringValue(scanstring(s, i + 1, i - 1))
      [] CharAt(s, i) = "{" -> ObjectStart(s, SkipWs(s, i + 1))
      [] CharAt(s, i) = "[" -> ArrayStart(s, SkipWs(s, i + 1))
      [] OTHER -> LiteralValue(s, i, LiteralAt(s, i))

\* the end of JSONDecoder.decode: nothing but whitespace may follow
DecodeEnd(s, r, e) ==
    IF ~r.ok THEN r
    ELSE IF e # Len(s) + 1 THEN DecodeError("Extra data", e - 1)
    ELSE r

DecodeValue(s, r) == DecodeEnd(s, r, SkipWs(s, r.end))

\* json.loads(s): JSONDecoder.decode
loads(s) == DecodeValue(s, scan_once(s, SkipWs(s, 1)))

(***************************************************************************)
(* GPTInterface.clean_json_string, step by step.                           *)
(***************************************************************************)
\* Etape 1, the loop body for one character of a line: st is the scanner's
\* state [out, in_string, escape_next]
ScanChar(st, char) ==
    IF char = "\\" /\ ~st.escape_next
    THEN [out |-> Append(st.out, char), in_string |-> st.in_string, escape_next |-> TRUE]
    ELSE LET in_string == IF char = "\"" /\ ~st.escape_next
                          THEN ~st.in_string
                          ELSE st.in_string
         IN  [out |-> IF in_string \/ char \notin {"\n", "\r", "\t"}
                      THEN Append(st.out, char)
                      ELSE st.out,
              in_string |-> in_string,
              escape_next |-> FALSE]

RECURSIVE ScanRange(_, _, _, _)
\* Etape 1 over the characters lo..hi of the text, in order: split('\n')
\* ends a line at every "\n", the flags carry over from one line to the
\* next, and ' '.join puts one space between two lines.  (The range is
\* halved so that the evaluation stays shallow.)
ScanRange(s, lo, hi, st) ==
    IF lo > hi THEN st
    ELSE IF lo = hi
    THEN IF s[lo] = "\n"
         THEN [st EXCEPT !.out = Append(st.out, " ")]
         ELSE ScanChar(st, s[lo])
    ELSE LET mid == (lo + hi) \div 2
             left == ScanRange(s, lo, mid, st)
         IN  \* the left half is evaluated before the right half is entered
             IF left = left THEN ScanRange(s, mid + 1, hi, left) ELSE left

ScanInit == [out |-> <<>>, in_string |-> FALSE, escape_next |-> FALSE]

\* cleaned = ' '.join(cleaned_lines)
Scan(json_str) == ScanRange(json_str, 1, Len(json_str), ScanInit).out

\* Etape 2: the indices of the quotes whose previous character is no backslash
quote_positions(cleaned) ==
    {i \in 1..Len(cleaned) : cleaned[i] = "\"" /\ (i = 1 \/ cleaned[i - 1] # "\\")}

\* Etape 2: with an odd number of quotes, one quote goes in before the first
\* '}' at or after the last quote, or at the end of the text
BalanceQuotes(cleaned) ==
    LET qp == quote_positions(cleaned)
    IN  IF Cardinality(qp) % 2 # 0
        THEN LET last_quote == SetMax(qp)
                 next_brace == FindFrom(cleaned, "}", last_quote)
             IN  IF next_brace # 0
                 THEN SubSeq(cleaned, 1, next_brace - 1) \o <<"\"">>
                          \o SubSeq(cleaned, next_brace, Len(cleaned))
                 ELSE Append(cleaned, "\"")
        ELSE cleaned

\* Etape 3 without the pop
StackStep_NeverPops(stack, char) ==
    IF char = "{" THEN Append(stack, char) ELSE stack

\* Etape 3, the loop body for one character
StackStep(stack, char) ==
    IF char = "{" THEN Append(stack, char)
    ELSE IF char = "}" /\ stack # <<>> THEN SubSeq(stack, 1, Len(stack) - 1)
    ELSE stack

RECURSIVE StackRange(_, _, _, _)
\* Etape 3 over the characters lo..hi of the text, in order
StackRange(s, lo, hi, stack) ==
    IF lo > hi THEN stack
    ELSE IF lo = hi THEN StackStep(stack, s[lo])
    ELSE LET mid == (lo + hi) \div 2
             left == StackRange(s, lo, mid, stack)
         IN  \* the left half is evaluated before the right half is entered
             IF left = left THEN StackRange(s, mid + 1, hi, left) ELSE left

\* Etape 3 with one closing brace too few
AppendBraces_OneShort(cleaned, stack) == cleaned \o Repeat("}", Len(stack) - 1)

\* lines 85-86: cleaned += '}' * len(stack)
AppendBraces(cleaned, stack) == cleaned \o Repeat("}", Len(stack))

BalanceBraces(cleaned) == AppendBraces(cleaned, StackRange(cleaned, 1, Len(cleaned), <<>>))

\* str(e).split('char ')[-1].strip() for a JSONDecodeError e: str(e) ends
\* "(char <pos>)", so what follows the last 'char ' is the offset and ')'
OffsetText(e) == Digits(e.pos) \o <<")">>

RECURSIVE IntValue(_)
IntValue(t) ==
    IF t = <<>> THEN 0
    ELSE 10 * IntValue(SubSeq(t, 1, Len(t) - 1))
           + (CHOOSE d \in 0..9 : Digits(d) = <<t[Len(t)]>>)

\* int(t): a ValueError unless t is a decimal numeral
ParseInt(t) ==
    IF t # <<>> /\ \A k \in 1..Len(t) : t[k] \in DigitChars
    THEN [ok |-> TRUE, val |-> IntValue(t)]
    ELSE [ok |-> FALSE, val |-> 0]

\* the except branch's last check: objets non fermes
CloseObjects(cleaned) ==
    IF Count(cleaned, "{") > Count(cleaned, "}")
    THEN cleaned \o Repeat("}", Count(cleaned, "{") - Count(cleaned, "}"))
    ELSE cleaned

\* the except branch of Etape 4 for a missing-comma diagnostic: pos is
\* int(...) of the offset read back from the message
InsertComma(cleaned, pos) ==
    IF pos.ok
    THEN [raised |-> FALSE, text |-> CloseObjects(InsertAt(cleaned, pos.val, ","))]
    ELSE [raised |-> TRUE, text |-> <<>>]

\* Etape 4 once json.loads(cleaned) has answered err: the text is returned
\* as it is when it decodes.  The result is [raised, text]: raised when an
\* exception leaves clean_json_string.
AfterLoads(cleaned, err) ==
    IF err.ok THEN [raised |-> FALSE, text |-> cleaned]
    ELSE IF err.msg = "Expecting ',' delimiter"
    THEN InsertComma(cleaned, ParseInt(OffsetText(err)))
    ELSE [raised |-> FALSE, text |-> CloseObjects(cleaned)]

\* Etape 4
FinalCheck(cleaned) == AfterLoads(cleaned, loads(cleaned))

clean_json_string(json_str) == FinalCheck(BalanceBraces(BalanceQuotes(Scan(json_str))))

(***************************************************************************)
(* The decoded document and the checks of generate_iros (lines 182-201).   *)
(***************************************************************************)
EmptyDict == [t |-> "obj", v |-> <<>>]

EmptyList == [t |-> "arr", v |-> <<>>]

\* the least number of items of every checked list
MinItems == 5

K_impacts == <<"i", "m", "p", "a", "c", "t", "s">>
K_positifs == <<"p", "o", "s", "i", "t", "i", "f", "s">>
K_negatifs == <<"n", "e", "g", "a", "t", "i", "f", "s">>
K_risques == <<"r", "i", "s", "q", "u", "e", "s">>
K_liste == <<"l", "i", "s", "t", "e">>
K_mesures_attenuation == <<"m", "e", "s", "u", "r", "e", "s", "_",
                           "a", "t", "t", "e", "n", "u", "a", "t", "i", "o", "n">>
K_opportunites == <<"o", "p", "p", "o", "r", "t", "u", "n", "i", "t", "e", "s">>
K_actions_saisie == <<"a", "c", "t", "i", "o", "n", "s", "_", "s", "a", "i", "s", "i", "e">>

\* the six checks in the order of the source: <<outer key, inner key>>
CheckedLists ==
    << <<K_impacts, K_positifs>>, <<K_impacts, K_negatifs>>,
       <<K_risques, K_liste>>, <<K_risques, K_mesures_attenuation>>,
       <<K_opportunites, K_liste>>, <<K_opportunites, K_actions_saisie>> >>

\* d.get(key, default) on a dict d
DictGet(d, key, default) ==
    LET hits == {n \in 1..Len(d.v) : d.v[n][1] = key}
    IN  IF hits = {} THEN default ELSE d.v[CHOOSE n \in hits : TRUE][2]

\* the check with `<=` for `<`
CheckList_OffByOne(details, outer, inner) ==
    IF details.t # "obj" THEN "error"
    ELSE LET group == DictGet(details, outer, EmptyDict)
         IN  IF group.t # "obj" THEN "error"
             ELSE LET items == DictGet(group, inner, EmptyList)
                  IN  IF items.t \notin {"arr", "obj", "str"} THEN "error"
                      ELSE IF Len(items.v) <= MinItems THEN "short"
                      ELSE "pass"

\* one check `len(details.get(outer, {}).get(inner, [])) < 5`: "pass",
\* "short", or "error" when .get meets a value that is no dict
\* (AttributeError) or len a value that has no length (TypeError)
CheckList(details, outer, inner) ==
    IF details.t # "obj" THEN "error"
    ELSE LET group == DictGet(details, outer, EmptyDict)
         IN  IF group.t # "obj" THEN "error"
             ELSE LET items == DictGet(group, inner, EmptyList)
                  IN  IF items.t \notin {"arr", "obj", "str"} THEN "error"
                      ELSE IF Len(items.v) < MinItems THEN "short"
                      ELSE "pass"

\* only the first check looked at
FirstFailure_FirstOnly(outcomes) ==
    IF outcomes = <<>> THEN "pass" ELSE outcomes[1]

\* the first check of the sequence that does not pass, "pass" when all do
FirstFailure(outcomes) ==
    LET failed == {n \in 1..Len(outcomes) : outcomes[n] # "pass"}
    IN  IF failed = {} THEN "pass" ELSE outcomes[SetMin(failed)]

\* the six checks of one enjeu, in order
CheckEnjeu(details) ==
    FirstFailure([n \in 1..Len(CheckedLists) |->
                     CheckList(details, CheckedLists[n][1], CheckedLists[n][2])])

\* for enjeu, details in enjeux.items(): an AttributeError when enjeux is no dict
CheckPilier(enjeux) ==
    IF enjeux.t # "obj" THEN "error"
    ELSE FirstFailure([n \in 1..Len(enjeux.v) |-> CheckEnjeu(enjeux.v[n][2])])

\* for pilier, enjeux in result.items(): "pass" (return result), "short"
\* (a new attempt) or "error" (an exception)
Validate(doc) ==
    IF doc.t # "obj" THEN "error"
    ELSE FirstFailure([n \in 1..Len(doc.v) |-> CheckPilier(doc.v[n][2])])

(***************************************************************************)
(* What the external generator may answer: texts built from the lengths of *)
(* the six lists of one enjeu of one pilier, whole or cut short, and texts *)
(* that are no document.                                                   *)
(***************************************************************************)
Quoted(k) == <<"\"">> \o k \o <<"\"">>

\* a list of n empty strings
ListText(n) ==
    <<"[">> \o [k \in 1..(3 * n - 1) |-> IF k % 3 = 0 THEN "," ELSE "\""] \o <<"]">>

Member(k, text) == Quoted(k) \o <<":">> \o text

Object2(m1, m2) == <<"{">> \o m1 \o <<",">> \o m2 \o <<"}">>

Object3(m1, m2, m3) == <<"{">> \o m1 \o <<",">> \o m2 \o <<",">> \o m3 \o <<"}">>

\* {"p": {"e": {"impacts": {...}, "risques": {...}, "opportunites": {...}}}}
\* with lists of n[1], ..., n[6] items
DocText(n) ==
    <<"{">> \o Member(<<"p">>, <<"{">> \o Member(<<"e">>,
        Object3(Member(K_impacts,
                       Object2(Member(K_positifs, ListText(n[1])),
                               Member(K_negatifs, ListText(n[2])))),
                Member(K_risques,
                       Object2(Member(K_liste, ListText(n[3])),
                               Member(K_mesures_attenuation, ListText(n[4])))),
                Member(K_opportunites,
                       Object2(Member(K_liste, ListText(n[5])),
                               Member(K_actions_saisie, ListText(n[6])))))) \o <<"}">>)
        \o <<"}">>

FullDoc == DocText(<<5, 5, 5, 5, 5, 5>>)

ShortDoc == DocText(<<4, 5, 5, 5, 5, 5>>)

\* the text without its last n characters
CutOff(text, n) == SubSeq(text, 1, Len(text) - n)

\* the number of checked lists of one enjeu
NumLists == Len(CheckedLists)

\* the details of one enjeu, with lists of n[1], ..., n[6] items
DetailsText(n) ==
    Object3(Member(K_impacts,
                   Object2(Member(K_positifs, ListText(n[1])),
                           Member(K_negatifs, ListText(n[2])))),
            Member(K_risques,
                   Object2(Member(K_liste, ListText(n[3])),
                           Member(K_mesures_attenuation, ListText(n[4])))),
            Member(K_opportunites,
                   Object2(Member(K_liste, ListText(n[5])),
                           Member(K_actions_saisie, ListText(n[6])))))

RECURSIVE Joined(_)
\* ','.join(parts)
Joined(parts) ==
    IF parts = <<>> THEN <<>>
    ELSE IF Len(parts) = 1 THEN parts[1]
    ELSE parts[1] \o <<",">> \o Joined(Tail(parts))

ObjectText(members) == <<"{">> \o Joined(members) \o <<"}">>

PilierNames == << <<"p">>, <<"q">> >>

EnjeuNames == << <<"e">>, <<"f">> >>

RECURSIVE Total(_)
Total(shape) == IF shape = <<>> THEN 0 ELSE Head(shape) + Total(Tail(shape))

\* the text of the pilier k, whose enjeux are the enjeux first + 1, ... of
\* the document
PilierText(shape, lens, k, first) ==
    Member(PilierNames[k],
           ObjectText([j \in 1..shape[k] |->
                          Member(EnjeuNames[first + j], DetailsText(lens[first + j]))]))

\* the text of a document of the given shape, lens[i][c] the number of
\* items of the list c of the enjeu i
DocumentText(shape, lens) ==
    ObjectText([k \in 1..Len(shape) |->
                   PilierText(shape, lens, k, Total(SubSeq(shape, 1, k - 1)))])

\* the lists of the enjeux 1..n: <<enjeu, list>>
ListsOf(n) == (1..n) \X (1..NumLists)

\* every list holds MinItems items but the lists of short, which hold one
\* item less
LensWith(n, short) ==
    [i \in 1..n |-> [c \in 1..NumLists |->
        IF <<i, c>> \in short THEN MinItems - 1 ELSE MinItems]]

\* a document of two piliers of one enjeu each, with the lists of short
\* one item short
TwoPiliers(short) == DocumentText(<<1, 1>>, LensWith(2, short))

\* {"p":{}}: a pilier without enjeux
NoEnjeu == ObjectText(<<Member(PilierNames[1], ObjectText(<<>>))>>)

Responses ==
    { FullDoc, ShortDoc,
      CutOff(FullDoc, 3), CutOff(ShortDoc, 2),
      DocText(<<5, 5, 5, 5, 5, 3>>),
      TwoPiliers({}), TwoPiliers({<<2, NumLists>>}), NoEnjeu,
      <<"{", "}">>, <<"[", "]">>, <<"}">>, <<"[", "\"", "\"">> }

(***************************************************************************)
(* Bounds of the controller.                                               *)
(***************************************************************************)
\* deepest nesting of generate_iros calls the interpreter allows before the
\* next call raises RecursionError (the recursion limit, scaled down)
MaxDepth == 3

\* the retry budget N of the specification; generate_iros takes none
RetryBudget == 1

(***************************************************************************)
(* State.                                                                  *)
(***************************************************************************)
VARIABLES
    pc,           \* where generate_iros stands
    attempt,      \* nesting depth of generate_iros calls = generation attempts started
    calls,        \* calls of client.chat.completions.create made so far
    raw_content,  \* the text of the second response of the current attempt
    result,       \* the document decoded in the current attempt
    returned,     \* what generate_iros returns to main
    outcome,      \* which return statement or exception ended the request
    parsed,       \* whether some attempt of the request has decoded a document
    last_doc,     \* the last document an attempt has decoded
    probes,       \* json.loads calls made on the response of the current attempt
    repaired,     \* clean_json_string calls made on the response of the current attempt
    json_str,     \* clean_json_string: its argument
    cpc,          \* clean_json_string: the step it stands at
    cleaned,      \* clean_json_string: the text being repaired
    scanned,      \* clean_json_string, Etape 3: characters of cleaned read so far
    stack,        \* clean_json_string, Etape 3: the open braces
    ret,          \* clean_json_string: what the call returned or that it raised
    pass,         \* how many times the repair pass was started on the text
    first_ret,    \* what the first pass returned
    first_str,    \* the argument of the first pass
    open_braces   \* for a truncated document, the objects open at its end

ctl_vars == <<pc, attempt, calls, raw_content, result, returned, outcome, parsed, last_doc,
              probes, repaired>>

clean_vars == <<json_str, cpc, cleaned, scanned, stack, ret, pass, first_ret, first_str, open_braces>>

vars == <<pc, attempt, calls, raw_content, result, returned, outcome, parsed, last_doc,
          probes, repaired, json_str, cpc, cleaned, scanned, stack, ret, pass, first_ret, first_str, open_braces>>

NoReturn == [raised |-> FALSE, text |-> <<>>]

CtlInit ==
    /\ pc = "idle"
    /\ attempt = 0
    /\ calls = 0
    /\ raw_content = <<>>
    /\ result = NoValue
    /\ returned = NoValue
    /\ outcome = "none"
    /\ parsed = FALSE
    /\ last_doc = NoValue
    /\ probes = 0
    /\ repaired = 0

CleanIdle ==
    /\ json_str = <<>>
    /\ cpc = "idle"
    /\ cleaned = <<>>
    /\ scanned = 0
    /\ stack = <<>>
    /\ ret = NoReturn
    /\ pass = 0
    /\ first_ret = NoReturn
    /\ first_str = <<>>
    /\ open_braces = 0

Init == CtlInit /\ CleanIdle

(***************************************************************************)
(* GPTInterface.generate_iros.                                             *)
(***************************************************************************)
\* a return statement of generate_iros: every caller up the recursion
\* returns the same value (`return self.generate_iros(context)`)
Return(value, how) ==
    /\ pc' = "done"
    /\ returned' = value
    /\ outcome' = how

\* an except clause that starts a new attempt instead of returning {}
ExceptException_Retries(how) ==
    /\ pc' = "first_call"
    /\ returned' = returned
    /\ outcome' = how

\* except Exception as e: ... return {}
ExceptException(how) == Return(EmptyDict, how)

\* `return self.generate_iros(context)`: a new attempt, or a RecursionError
\* at the deepest nesting, which the except clause catches
Regenerate ==
    IF attempt < MaxDepth
    THEN /\ pc' = "first_call"
         /\ attempt' = attempt + 1
         /\ UNCHANGED <<returned, outcome>>
    ELSE /\ ExceptException("recursion_error")
         /\ UNCHANGED attempt

\* main, line 625: st.session_state.gpt.generate_iros(context)
Launch ==
    /\ pc = "idle"
    /\ pc' = "first_call"
    /\ attempt' = 1
    /\ UNCHANGED <<calls, raw_content, result, returned, outcome, parsed, last_doc>>
    /\ UNCHANGED <<probes, repaired>>
    /\ UNCHANGED clean_vars

\* lines 113-123: the first call of the generator answers
FirstCall ==
    /\ pc = "first_call"
    /\ calls' = calls + 1
    /\ pc' = "second_call"
    /\ UNCHANGED <<attempt, raw_content, result, returned, outcome, parsed, last_doc>>
    /\ UNCHANGED <<probes, repaired>>
    /\ UNCHANGED clean_vars

\* lines 113-123: the first call of the generator raises
FirstCallFails ==
    /\ pc = "first_call"
    /\ calls' = calls + 1
    /\ ExceptException("transport_error")
    /\ UNCHANGED <<attempt, raw_content, result, parsed, last_doc>>
    /\ UNCHANGED <<probes, repaired>>
    /\ UNCHANGED clean_vars

\* lines 128-161: the second call of the generator answers some text
SecondCall ==
    /\ pc = "second_call"
    /\ calls' = calls + 1
    /\ \E text \in Responses : raw_content' = text
    /\ probes' = 0
    /\ repaired' = 0
    /\ pc' = "decode"
    /\ UNCHANGED <<attempt, result, returned, outcome, parsed, last_doc>>
    /\ UNCHANGED clean_vars

\* lines 128-158: the second call of the generator raises
SecondCallFails ==
    /\ pc = "second_call"
    /\ calls' = calls + 1
    /\ ExceptException("transport_error")
    /\ UNCHANGED <<attempt, raw_content, result, parsed, last_doc>>
    /\ UNCHANGED <<probes, repaired>>
    /\ UNCHANGED clean_vars

\* lines 171-177: json.loads(cleaned_content) has answered second
DecodeSecond(second) ==
    IF second.ok
    THEN [how |-> "decoded", doc |-> second.val, probes |-> 3, repaired |-> 1]
    ELSE [how |-> "undecodable", doc |-> NoValue, probes |-> 3, repaired |-> 1]

\* lines 170-172: clean_json_string(raw_content) has answered rep; it has
\* called json.loads once itself (line 91)
DecodeRepaired(rep) ==
    IF rep.raised THEN [how |-> "raised", doc |-> NoValue, probes |-> 2, repaired |-> 1]
    ELSE DecodeSecond(loads(rep.text))

\* the repair pass run on every response, decodable or not
DecodeRaw_AlwaysRepairs(raw, direct) == DecodeRepaired(clean_json_string(raw))

\* lines 163-170: json.loads(raw_content) has answered direct
DecodeRaw(raw, direct) ==
    IF direct.ok
    THEN [how |-> "decoded", doc |-> direct.val, probes |-> 1, repaired |-> 0]
    ELSE DecodeRepaired(clean_json_string(raw))

\* what lines 163-177 make of raw_content: [how, doc, probes, repaired] with
\* how "decoded", "undecodable" (line 177) or "raised" (clean_json_string
\* raised), and the calls of json.loads and of clean_json_string made
Decode(raw) == DecodeRaw(raw, loads(raw))

\* result = json.loads(...) succeeded with the document d.doc
Decoded(d) ==
    /\ d.how = "decoded"
    /\ result' = d.doc
    /\ parsed' = TRUE
    /\ last_doc' = d.doc
    /\ probes' = d.probes
    /\ repaired' = d.repaired

\* lines 163-177 end without a document, in the way how
NotDecoded(d, how) ==
    /\ d.how = how
    /\ probes' = d.probes
    /\ repaired' = d.repaired

\* lines 163-172: the raw or the repaired text decodes
DecodeResponse ==
    /\ pc = "decode"
    /\ Decoded(Decode(raw_content))
    /\ pc' = "validate"
    /\ UNCHANGED <<attempt, calls, raw_content, returned, outcome>>
    /\ UNCHANGED clean_vars

\* lines 173-177: the repaired text does not decode either: return {}
DecodeFails ==
    /\ pc = "decode"
    /\ NotDecoded(Decode(raw_content), "undecodable")
    /\ Return(EmptyDict, "decode_failed")
    /\ UNCHANGED <<attempt, calls, raw_content, result, parsed, last_doc>>
    /\ UNCHANGED clean_vars

\* line 170: clean_json_string raises, the except clause of line 205 catches
RepairRaises ==
    /\ pc = "decode"
    /\ NotDecoded(Decode(raw_content), "raised")
    /\ ExceptException("exception")
    /\ UNCHANGED <<attempt, calls, raw_content, result, parsed, last_doc>>
    /\ UNCHANGED clean_vars

\* lines 182-203: every checked list has its items: return result
Accept ==
    /\ pc = "validate"
    /\ Validate(result) = "pass"
    /\ Return(result, "accepted")
    /\ UNCHANGED <<attempt, calls, raw_content, result, parsed, last_doc>>
    /\ UNCHANGED <<probes, repaired>>
    /\ UNCHANGED clean_vars

\* lines 184-201: a list is short: return self.generate_iros(context)
Reject ==
    /\ pc = "validate"
    /\ Validate(result) = "short"
    /\ Regenerate
    /\ UNCHANGED <<calls, raw_content, result, parsed, last_doc>>
    /\ UNCHANGED <<probes, repaired>>
    /\ UNCHANGED clean_vars

\* lines 182-201: the document has no such shape (.items, .get or len raise)
ValidationRaises ==
    /\ pc = "validate"
    /\ Validate(result) = "error"
    /\ ExceptException("exception")
    /\ UNCHANGED <<attempt, calls, raw_content, result, parsed, last_doc>>
    /\ UNCHANGED <<probes, repaired>>
    /\ UNCHANGED clean_vars

Next ==
    \/ Launch
    \/ FirstCall
    \/ FirstCallFails
    \/ SecondCall
    \/ SecondCallFails
    \/ DecodeResponse
    \/ DecodeFails
    \/ RepairRaises
    \/ Accept
    \/ Reject
    \/ ValidationRaises

Spec == Init /\ [][Next]_vars

(***************************************************************************)
(* clean_json_string, one step at a time, on the texts it may be given:    *)
(* every text over Alphabet up to MaxLen characters, documents cut off     *)
(* inside a string value, and some longer texts.  A returned text is given *)
(* to clean_json_string once more (second pass).                           *)
(***************************************************************************)
\* most objects open where a document is cut off
MaxOpen == 2

\* most characters of the string value that is cut off
MaxContent == 2

\* characters of the string value that is cut off
ContentChars == {"t", "{"}

Texts == UNION {[1..n -> Alphabet] : n \in 0..MaxLen}

Contents == UNION {[1..n -> ContentChars] : n \in 0..MaxContent}

RECURSIVE OpenObjects(_, _)
\* '{"k1":' sep '{"k2":' sep ... for the keys k1, k2, ...
OpenObjects(keys, sep) ==
    IF keys = <<>> THEN <<>>
    ELSE <<"{">> \o Quoted(Head(keys)) \o <<":">> \o sep \o OpenObjects(Tail(keys), sep)

\* a document cut off inside the string value of its innermost object
Truncated(keys, sep, content) == OpenObjects(keys, sep) \o <<"\"">> \o content

K_a == <<"a">>

K_environnement == <<"e", "n", "v", "i", "r", "o", "n", "n", "e", "m", "e", "n", "t">>

K_eau == <<"e", "a", "u">>

K_description == <<"d", "e", "s", "c", "r", "i", "p", "t", "i", "o", "n">>

\* {"environnement": {"eau": {"description": "test
Scenario ==
    Truncated(<<K_environnement, K_eau, K_description>>, <<" ">>, <<"t", "e", "s", "t">>)

\* longer texts: a balanced text with an escaped tab before its quotes, and
\* a list in which a comma is missing
SampleTexts ==
    { <<"\\", "\t", "\"", "\"", "\\">>,
      <<"[", "\"", "\"", " ", "\"", "\"", "]">> }

\* [text, open]: open is the number of objects open at the end of a document
\* cut off inside a string value, 0 for the other texts
CleanInputs ==
    {[text |-> t, open |-> 0] : t \in Texts \cup SampleTexts}
    \cup {[text |-> Truncated([n \in 1..k |-> K_a], <<>>, c), open |-> k] :
             k \in 1..MaxOpen, c \in Contents}
    \cup {[text |-> Scenario, open |-> 3]}

\* clean_json_string(json_str) has been called
CleanCalled(inp) ==
    /\ json_str = inp.text
    /\ open_braces = inp.open
    /\ first_str = inp.text
    /\ cpc = "scan"
    /\ cleaned = <<>>
    /\ scanned = 0
    /\ stack = <<>>
    /\ ret = NoReturn
    /\ pass = 1
    /\ first_ret = NoReturn

InitClean == CtlInit /\ \E inp \in CleanInputs : CleanCalled(inp)

\* Etape 1, lines 33-56
CleanScan ==
    /\ cpc = "scan"
    /\ cleaned' = Scan(json_str)
    /\ cpc' = "quotes"
    /\ UNCHANGED <<json_str, scanned, stack, ret, pass, first_ret, first_str, open_braces>>
    /\ UNCHANGED ctl_vars

\* Etape 2, lines 58-74; line 77: stack = []
CleanQuotes ==
    /\ cpc = "quotes"
    /\ cleaned' = BalanceQuotes(cleaned)
    /\ stack' = <<>>
    /\ scanned' = 0
    /\ cpc' = "braces"
    /\ UNCHANGED <<json_str, ret, pass, first_ret, first_str, open_braces>>
    /\ UNCHANGED ctl_vars

\* Etape 3, lines 78-83: one turn of `for char in cleaned`
CleanBraceStep ==
    /\ cpc = "braces"
    /\ scanned < Len(cleaned)
    /\ stack' = StackStep(stack, cleaned[scanned + 1])
    /\ scanned' = scanned + 1
    /\ UNCHANGED <<json_str, cpc, cleaned, ret, pass, first_ret, first_str, open_braces>>
    /\ UNCHANGED ctl_vars

\* Etape 3, lines 85-86: cleaned += '}' * len(stack)
CleanAppendBraces ==
    /\ cpc = "braces"
    /\ scanned = Len(cleaned)
    /\ cleaned' = AppendBraces(cleaned, stack)
    /\ cpc' = "final"
    /\ UNCHANGED <<json_str, scanned, stack, ret, pass, first_ret, first_str, open_braces>>
    /\ UNCHANGED ctl_vars

\* Etape 4, lines 88-103: the call returns or raises
CleanFinal ==
    /\ cpc = "final"
    /\ ret' = FinalCheck(cleaned)
    /\ cpc' = "returned"
    /\ UNCHANGED <<json_str, cleaned, scanned, stack, pass, first_ret, first_str, open_braces>>
    /\ UNCHANGED ctl_vars

\* the returned text is given to clean_json_string again
CleanAgain ==
    /\ cpc = "returned"
    /\ pass = 1
    /\ ~ret.raised
    /\ first_ret' = ret
    /\ json_str' = ret.text
    /\ pass' = 2
    /\ cpc' = "scan"
    /\ cleaned' = <<>>
    /\ scanned' = 0
    /\ stack' = <<>>
    /\ ret' = NoReturn
    /\ UNCHANGED <<first_str, open_braces>>
    /\ UNCHANGED ctl_vars

NextClean ==
    \/ CleanScan
    \/ CleanQuotes
    \/ CleanBraceStep
    \/ CleanAppendBraces
    \/ CleanFinal
    \/ CleanAgain

SpecClean == InitClean /\ [][NextClean]_vars

(***************************************************************************)
(* The checks of generate_iros on documents of several piliers and enjeux: *)
(* the generator has answered a text that decodes, and lines 182-203 run   *)
(* on the decoded document.                                                *)
(***************************************************************************)
\* most lists of a document that hold fewer than MinItems items
MaxShort == 2

\* the number of enjeux of every pilier of a document
Shapes == {<<>>, <<0>>, <<0, 0>>, <<1>>, <<2>>, <<1, 1>>}

ShapedTexts ==
    UNION {{DocumentText(shape, LensWith(Total(shape), short)) :
               short \in {S \in SUBSET ListsOf(Total(shape)) : Cardinality(S) <= MaxShort}} :
           shape \in Shapes}

\* documents of another make: a pilier that is a list, an enjeu that is a
\* list, an enjeu without any key, impacts that is a string, positifs that
\* is a number
OddTexts ==
    { ObjectText(<<Member(<<"p">>, <<"[", "]">>)>>),
      ObjectText(<<Member(<<"p">>, ObjectText(<<Member(<<"e">>, <<"[", "]">>)>>))>>),
      ObjectText(<<Member(<<"p">>, ObjectText(<<Member(<<"e">>, <<"{", "}">>)>>))>>),
      ObjectText(<<Member(<<"p">>, ObjectText(<<Member(<<"e">>,
          ObjectText(<<Member(K_impacts, <<"\"", "\"">>)>>))>>))>>),
      ObjectText(<<Member(<<"p">>, ObjectText(<<Member(<<"e">>,
          ObjectText(<<Member(K_impacts,
              ObjectText(<<Member(K_positifs, <<"7">>)>>))>>))>>))>>) }

ValidatedTexts == ShapedTexts \cup OddTexts

\* line 179 is reached in some attempt: json.loads(raw_content) has
\* answered the document d
Validating(text, d) ==
    /\ d.ok
    /\ pc = "validate"
    /\ attempt \in 1..MaxDepth
    /\ calls = 2 * attempt
    /\ raw_content = text
    /\ result = d.val
    /\ returned = NoValue
    /\ outcome = "none"
    /\ parsed = TRUE
    /\ last_doc = d.val
    /\ probes = 1
    /\ repaired = 0

InitValidate == CleanIdle /\ \E text \in ValidatedTexts : Validating(text, loads(text))

NextValidate ==
    \/ Accept
    \/ Reject
    \/ ValidationRaises

SpecValidate == InitValidate /\ [][NextValidate]_vars

(***************************************************************************)
(* Properties of generate_iros, checked under Spec.                        *)
(***************************************************************************)
\* C1: with a retry budget of N (RetryBudget), generate_iros starts at most
\* N + 1 generation attempts, whatever the generator answers.
C1_AtMostBudgetPlusOneAttempts == attempt <= RetryBudget + 1

\* C2: a decoded document with a short list, met when no retry budget
\* remains, ends the request and is returned as it is: no new attempt and
\* no empty result.
C2_ShortDocumentReturnedAtBudgetEnd ==
    [][(pc = "validate" /\ Validate(result) = "short" /\ attempt >= RetryBudget + 1)
          => (pc' = "done" /\ returned' = result)]_vars

\* C3: a response that does not decode even after the repair starts a new
\* generation attempt while retry budget remains.
C3_DecodeFailureRegenerates ==
    [][(pc = "decode" /\ pc' # "decode" /\ Decode(raw_content).how = "undecodable"
        /\ attempt <= RetryBudget)
          => (pc' = "first_call" /\ attempt' = attempt + 1)]_vars

\* C4: a generator call that fails, in the first attempt or in a later one,
\* ends the request with the empty result, and no generator call is made
\* after the failure.
C4_TransportErrorIsTerminal ==
    [][/\ (outcome # "transport_error" /\ outcome' = "transport_error")
            => (pc' = "done" /\ returned' = EmptyDict)
       /\ outcome = "transport_error"
            => (calls' = calls /\ pc' = "done" /\ returned' = EmptyDict
                /\ outcome' = "transport_error")]_vars

\* C4 witness: a generator call has failed in a regeneration attempt, after
\* an earlier attempt had decoded a document
C4_Witness ==
    /\ pc = "done"
    /\ outcome = "transport_error"
    /\ attempt > 1
    /\ parsed
    /\ returned = EmptyDict

\* C14 for one step that leaves the decoding, direct being what
\* json.loads(raw_content) answers
DecodeOrder(direct) ==
    /\ probes' \in 1..3
    /\ repaired' = IF direct.ok THEN 0 ELSE 1
    /\ direct.ok => (pc' = "validate" /\ probes' = 1 /\ result' = direct.val)
    /\ (pc' = "validate" /\ ~direct.ok) => probes' = 3
    /\ outcome' = "decode_failed" => probes' = 3

\* C14: in one attempt json.loads is tried on the raw response first, and
\* clean_json_string is called only when that fails; the repaired text is
\* decoded again; the attempt ends as a decode failure after three calls of
\* json.loads at most; a raw response that decodes gives the decode of the
\* raw text as the document.
C14_DecodeOrder ==
    [][(pc = "decode" /\ pc' # "decode") => DecodeOrder(loads(raw_content))]_vars

\* C14 witness: the raw response did not decode, the repaired text did,
\* on the third call of json.loads
C14_Witness ==
    /\ pc = "validate"
    /\ probes = 3
    /\ repaired = 1
    /\ result # NoValue
    /\ ~loads(raw_content).ok

\* C5: once an attempt has decoded a document, a request that ends accepted
\* or with its attempts used up (a later response undecodable, or no attempt
\* left) returns the last decoded document, never the empty result.
C5_LastDocumentReturned ==
    (pc = "done" /\ parsed /\ outcome \in {"accepted", "decode_failed", "recursion_error"})
        => (returned = last_doc /\ returned # EmptyDict)

(***************************************************************************)
(* Properties of clean_json_string, checked under SpecClean.               *)
(***************************************************************************)
\* the call has returned a text
Returned == cpc = "returned" /\ ~ret.raised

\* some '}' of the text closes no earlier '{'
UnmatchedClose(s) ==
    \E n \in 1..Len(s) : Count(SubSeq(s, 1, n), "}") > Count(SubSeq(s, 1, n), "{")

\* the quotes of the text that no unescaped backslash escapes: a quote is
\* escaped when an odd number of backslashes stands right before it
UnescapedQuotes(s) ==
    {i \in 1..Len(s) : s[i] = "\"" /\ BackslashRun(s, 1, i) % 2 = 0}

\* quotes and braces of the text are balanced
Balanced(s) ==
    /\ Cardinality(UnescapedQuotes(s)) % 2 = 0
    /\ ~UnmatchedClose(s)
    /\ Count(s, "{") = Count(s, "}")

\* C6 as stated: the returned text has as many '{' as '}', for every input.
C6_BraceCountsEqual ==
    Returned => Count(ret.text, "{") = Count(ret.text, "}")

\* C6 as amended: after the brace balancing, and in every returned text,
\* there are at least as many '}' as '{', and exactly as many when every
\* '}' of the input closes an earlier '{'.
C6_NoMoreOpenThanClose ==
    /\ cpc = "final"
         => /\ Count(cleaned, "{") <= Count(cleaned, "}")
            /\ ~UnmatchedClose(json_str) => Count(cleaned, "{") = Count(cleaned, "}")
    /\ Returned
         => /\ Count(ret.text, "{") <= Count(ret.text, "}")
            /\ ~UnmatchedClose(json_str) => Count(ret.text, "{") = Count(ret.text, "}")

\* C6 witness: a text with an unmatched '}' and an open '{' has been
\* returned with braces appended
C6_Witness ==
    /\ Returned
    /\ pass = 1
    /\ UnmatchedClose(json_str)
    /\ Count(json_str, "{") > 0
    /\ Len(ret.text) > Len(json_str)
    /\ Count(ret.text, "{") < Count(ret.text, "}")

\* C7: the returned text holds an even number of unescaped quotes.
C7_UnescapedQuotesEven ==
    Returned => Cardinality(UnescapedQuotes(ret.text)) % 2 = 0

\* C8: clean_json_string never raises: every call returns a text.
C8_NeverRaises == cpc = "returned" => ~ret.raised

\* the string value a document of nested one-member objects ends in
RECURSIVE Innermost(_)
Innermost(doc) ==
    IF doc.t = "obj" /\ Len(doc.v) = 1 THEN Innermost(doc.v[1][2]) ELSE doc

\* the characters after the last quote of the text
AfterLastQuote(s) ==
    SubSeq(s, SetMax({0} \cup {i \in 1..Len(s) : s[i] = "\""}) + 1, Len(s))

\* C9: a document cut off inside a string value with k objects open is
\* returned with one quote and k closing braces appended, and the result
\* decodes to the nested objects with the string value kept.
C9_TruncatedDocumentRepaired ==
    (cpc = "returned" /\ pass = 1 /\ open_braces >= 1)
        => /\ ~ret.raised
           /\ ret.text = json_str \o <<"\"">> \o Repeat("}", open_braces)
           /\ loads(ret.text).ok
           /\ Innermost(loads(ret.text).val) = [t |-> "str", v |-> AfterLastQuote(json_str)]

\* C10: on a balanced text the second pass returns what the first returned.
C10_Idempotent ==
    (cpc = "returned" /\ Balanced(first_str))
        => /\ ~ret.raised
           /\ pass = 2 => ret.text = first_ret.text

\* whether the place i of the text lies inside a quoted string: an odd
\* number of unescaped quotes stands before it
InsideString(s, i) == Cardinality({j \in UnescapedQuotes(s) : j < i}) % 2 = 1

\* line breaks, tabs and spaces
Blank == {"\n", "\r", "\t", " "}

\* the places of the text that hold a character of a string or a character
\* that is not blank
KeptPlaces(s) == {i \in 1..Len(s) : InsideString(s, i) \/ s[i] \notin Blank}

\* the text without its blank characters outside strings
Kept(s) ==
    LET places == KeptPlaces(s)
    IN  [k \in 1..Cardinality(places) |->
            s[CHOOSE i \in places : Cardinality({j \in places : j <= i}) = k]]

\* C13: the scanner (Etape 1) keeps every character inside a quoted string,
\* line breaks and tabs too, in order, and removes nothing but line breaks
\* and tabs outside strings.  Stated up to blank characters outside
\* strings: input and output agree once these are left out.
C13_InStringCharactersKept ==
    cpc = "quotes" => Kept(cleaned) = Kept(json_str)

\* '{' minus '}' among the first m characters of the text
Depth(s, m) == Count(SubSeq(s, 1, m), "{") - Count(SubSeq(s, 1, m), "}")

\* the '}' among the first m characters that close no earlier '{': the
\* deepest the difference has fallen below zero
Skipped(s, m) == 0 - SetMin({Depth(s, k) : k \in 0..m})

\* C15 as stated: at every step of Etape 3 the stack holds as many entries
\* as '{' minus '}' were seen so far.
C15_StackIsDifference ==
    cpc = "braces" => Len(stack) = Depth(cleaned, scanned)

\* C15 as amended: at every step of Etape 3 the stack holds as many entries
\* as '{' minus '}' were seen so far, the '}' that were met on an empty
\* stack not counted.
C15_StackIsDifferenceOfMatched ==
    cpc = "braces"
        => /\ Len(stack) = Depth(cleaned, scanned) + Skipped(cleaned, scanned)
           /\ \A k \in 1..Len(stack) : stack[k] = "{"

\* C15 witness: the scan has ended with a '{' open after a '}' that was met
\* on an empty stack
C15_Witness ==
    /\ cpc = "braces"
    /\ scanned = Len(cleaned)
    /\ scanned >= 2
    /\ Len(stack) >= 1
    /\ Skipped(cleaned, scanned) >= 1

(***************************************************************************)
(* Properties of the checks of generate_iros, checked under SpecValidate.  *)
(***************************************************************************)
\* the enjeux of a document: <<pilier, enjeu>>, by their places
IssuesOf(doc) ==
    {pe \in (1..Len(doc.v)) \X (1..2) :
        doc.v[pe[1]][2].t = "obj" /\ pe[2] <= Len(doc.v[pe[1]][2].v)}

\* the details of the enjeu pe
DetailsOf(doc, pe) == doc.v[pe[1]][2].v[pe[2]][2]

\* the number of items of the list c of the enjeu pe, -1 when there is no
\* such list
ListLen(doc, pe, c) ==
    LET group == DictGet(DetailsOf(doc, pe), CheckedLists[c][1], NoValue)
        items == DictGet(group, CheckedLists[c][2], NoValue)
    IN  IF items.t = "arr" THEN Len(items.v) ELSE -1

\* a document of piliers of enjeux, with one enjeu at least
HasIssues(doc) ==
    /\ doc.t = "obj"
    /\ \A p \in 1..Len(doc.v) : doc.v[p][2].t = "obj"
    /\ IssuesOf(doc) # {}

\* every list of every enjeu holds exactly MinItems items, but the lists of
\* short, which hold one item less
ExactlyBut(doc, short) ==
    /\ HasIssues(doc)
    /\ \A pe \in IssuesOf(doc), c \in 1..NumLists :
          ListLen(doc, pe, c) = IF <<pe, c>> \in short THEN MinItems - 1 ELSE MinItems

\* the checks that do not pass: <<enjeu, list>>
Failing(doc) ==
    {f \in IssuesOf(doc) \X (1..NumLists) :
        CheckList(DetailsOf(doc, f[1]), CheckedLists[f[2]][1], CheckedLists[f[2]][2]) # "pass"}

\* C11: a document whose lists all hold exactly 5 items passes every check
\* and is returned; with one list of one enjeu cut to 4 items, the check of
\* that list of that enjeu fails, no other does, and the document is not
\* returned.
C11_ValidatorCompleteness ==
    [][pc = "validate"
         => /\ ExactlyBut(result, {})
                 => /\ Failing(result) = {}
                    /\ pc' = "done" /\ outcome' = "accepted" /\ returned' = result
            /\ \A f \in IssuesOf(result) \X (1..NumLists) :
                   ExactlyBut(result, {f})
                       => /\ Failing(result) = {f}
                          /\ outcome' # "accepted"
                          /\ returned' # result]_vars

\* C11 witness: a document of two piliers whose only short list is the last
\* list of the enjeu of the second pilier has been rejected
C11_Witness ==
    /\ pc = "first_call"
    /\ attempt = 2
    /\ Len(result.v) = 2
    /\ ExactlyBut(result, {<< <<2, 1>>, NumLists >>})

\* a document without any enjeu: no pilier, or piliers without enjeux
NoIssues(doc) ==
    /\ doc.t = "obj"
    /\ \A p \in 1..Len(doc.v) : doc.v[p][2].t = "obj" /\ doc.v[p][2].v = <<>>

\* C12: a decoded document without piliers or without enjeux fails the
\* validation: it raises no error and it is not returned as a passing
\* document (the empty result is what main takes as a failure).
C12_EmptyDocumentIsFailure ==
    [][(pc = "validate" /\ NoIssues(result))
          => /\ outcome' # "exception"
             /\ ~(outcome' = "accepted" /\ returned' # EmptyDict)]_vars

(***************************************************************************)
(* What generate_iros returns, checked under Spec.                         *)
(***************************************************************************)
\* len() of the value at the list c of the enjeu pe, the absent key being
\* the empty list; -1 when the value has no length
SizeAt(doc, pe, c) ==
    LET group == DictGet(DetailsOf(doc, pe), CheckedLists[c][1], EmptyDict)
        items == DictGet(group, CheckedLists[c][2], EmptyList)
    IN  IF items.t \in {"arr", "obj", "str"} THEN Len(items.v) ELSE -1

\* a document of piliers of enjeux whose six lists all hold MinItems items
\* at least
AllListsFull(doc) ==
    /\ doc.t = "obj"
    /\ \A p \in 1..Len(doc.v) : doc.v[p][2].t = "obj"
    /\ \A pe \in IssuesOf(doc), c \in 1..NumLists : SizeAt(doc, pe, c) >= MinItems

\* C16: whatever the attempts were, a value that generate_iros returns is
\* the empty mapping, or it is the document decoded in the last attempt,
\* accepted, with 5 items at least in each of the six lists of every enjeu
\* of every pilier; every other end of the request returns the empty
\* mapping.
C16_OnlyFullDocumentsReturned ==
    pc = "done"
        => /\ returned # EmptyDict
                => (outcome = "accepted" /\ returned = result /\ AllListsFull(returned))
           /\ outcome # "accepted" => returned = EmptyDict

\* C16 witness: after a rejected attempt, a document of two piliers has
\* been returned
C16_Witness ==
    /\ pc = "done"
    /\ attempt >= 2
    /\ outcome = "accepted"
    /\ Len(returned.v) = 2
    /\ Cardinality(IssuesOf(returned)) = 2
    /\ AllListsFull(returned)

=============================================================================
